---- MODULE Spec2Model ----
(***************************************************************************)
(* The facility-listing forms of the incubator dashboard                   *)
(* (BioAlliedLabsForm, CoworkingSpacesForm, RawSpaceLabForm) as one state  *)
(* machine.  One behaviour is the life of one form instance: the kind of   *)
(* the form and its initialData prop are fixed at construction, the user   *)
(* then edits fields, toggles rental plans, adds and removes rows, and     *)
(* submits.  A submit runs react-hook-form's handleSubmit: the zod         *)
(* resolver of the form's schema first, then the form's handleFormSubmit,  *)
(* which suspends on the external onSubmit call.                           *)
(***************************************************************************)
EXTENDS Integers, Sequences, FiniteSets, TLC

VARIABLES
    kind,          \* which form this instance is (the payload's type tag)
    initialData,   \* the initialData prop
    images,        \* useState images (local list)
    equipment,     \* useState equipment (local list, BioAlliedLabsForm)
    areaDetails,   \* useState areaDetails (local list, RawSpaceLabForm)
    values,        \* the form-bound state (form.getValues())
    errors,        \* form.formState.errors
    isSubmitting,  \* form.formState.isSubmitting
    pending,       \* payloads of the onSubmit calls that have not settled yet
    lastOp,        \* the handler that ran last, and what it did
    nEdits,        \* number of user edits so far
    signInPage     \* the state of the SignIn page component

vars == <<kind, initialData, images, equipment, areaDetails, values, errors,
          isSubmitting, pending, lastOp, nEdits, signInPage>>

draft == <<images, equipment, areaDetails, values>>

-----------------------------------------------------------------------------
(* Bounds of the exploration. *)

\* user edits per form instance
MaxEdits == 2
\* rows the user grows a repeatable list to with the Add button
MaxRows == 3

-----------------------------------------------------------------------------
(* Values. *)

Bio == "bio-allied-labs"
Coworking == "coworking-spaces"
RawSpace == "raw-space-lab"
Kinds == {Bio, Coworking, RawSpace}

\* An optional number field: undefined, NaN (an emptied number input read with
\* valueAsNumber) or a number.
Undefined == [tag |-> "undefined", val |-> 0]
NaN == [tag |-> "nan", val |-> 0]
Num(n) == [tag |-> "number", val |-> n]

\* JavaScript truthiness of an optional number (!!x).
Truthy(x) == x.tag = "number" /\ x.val # 0

\* x || 0 on an optional number.
OrZero(x) == IF Truthy(x) THEN x.val ELSE 0

\* String.prototype.trim on the strings of the model.
Trim(s) == IF s \in {" ", "  "} THEN "" ELSE s

Max(a, b) == IF a >= b THEN a ELSE b

RENTAL_PLANS == <<"Annual", "Monthly", "Weekly", "One Day (24 Hours)">>

Plans == {RENTAL_PLANS[i] : i \in 1..Len(RENTAL_PLANS)}

\* The price field the forms pair with a plan (the switch statements).
RentField(plan) ==
    CASE plan = "Annual" -> "rentPerYear"
      [] plan = "Monthly" -> "rentPerMonth"
      [] plan = "Weekly" -> "rentPerWeek"
      [] plan = "One Day (24 Hours)" -> "dayPassRent"

Includes(seq, x) == \E i \in 1..Len(seq) : seq[i] = x

\* Array.prototype.filter((_, i) => i !== index), indices counted from 0.
RECURSIVE FilterNotIndex(_, _, _)
FilterNotIndex(seq, index, i) ==
    IF i >= Len(seq) THEN <<>>
    ELSE (IF i # index THEN <<seq[i + 1]>> ELSE <<>>)
         \o FilterNotIndex(seq, index, i + 1)

\* Mutant of RemoveIndex: the index taken as counted from 1.
RemoveIndex_OffByOne(seq, index) == FilterNotIndex(seq, index - 1, 0)

\* list.filter((_, i) => i !== index) of removeEquipment and removeAreaDetail
RemoveIndex(seq, index) == FilterNotIndex(seq, index, 0)

-----------------------------------------------------------------------------
(* The initialData prop. *)

EmptyEquipment == [labName |-> "", equipmentName |-> "", capacityAndMake |-> ""]

DefaultAreaDetail ==
    [area |-> Num(0), type |-> "Covered", furnishing |-> "Not Furnished",
     customisation |-> "Open to Customisation"]

\* initialData is undefined: a new draft.
NoInitialData ==
    [defined |-> FALSE, name |-> "", description |-> "", images |-> <<>>,
     videoLink |-> "", rentalPlans |-> <<>>, equipment |-> <<>>,
     areaDetails |-> <<>>, totalSeats |-> 0, availableSeats |-> 0]

\* An existing listing with one image, one plan and one row.
ListingA ==
    [defined |-> TRUE, name |-> "Lab A", description |-> "Desc A",
     images |-> <<"u1">>, videoLink |-> "",
     rentalPlans |-> <<[name |-> "Monthly", price |-> 5000, duration |-> "Monthly"]>>,
     equipment |-> <<[labName |-> "L1", equipmentName |-> "E1", capacityAndMake |-> "C1"]>>,
     areaDetails |-> <<[area |-> Num(100), type |-> "Covered", furnishing |-> "Furnished",
                        customisation |-> "Open to Customisation"]>>,
     totalSeats |-> 2, availableSeats |-> 1]

\* An existing listing with two images, two plans and three rows.
ListingB ==
    [defined |-> TRUE, name |-> "Lab B", description |-> "Desc B",
     images |-> <<"u1", "u2">>, videoLink |-> "v1",
     rentalPlans |-> <<[name |-> "Weekly", price |-> 900, duration |-> "Weekly"],
                       [name |-> "Annual", price |-> 60000, duration |-> "Annual"]>>,
     equipment |-> <<[labName |-> "L1", equipmentName |-> "E1", capacityAndMake |-> "C1"],
                     [labName |-> "L2", equipmentName |-> "E2", capacityAndMake |-> "C2"],
                     [labName |-> "L3", equipmentName |-> "E3", capacityAndMake |-> "C3"]>>,
     areaDetails |-> <<[area |-> Num(100), type |-> "Covered", furnishing |-> "Furnished",
                        customisation |-> "Open to Customisation"],
                       [area |-> Num(200), type |-> "Uncovered", furnishing |-> "Not Furnished",
                        customisation |-> "Cannot be Customised"],
                       [area |-> Num(300), type |-> "Covered", furnishing |-> "Not Furnished",
                        customisation |-> "Cannot be Customised"]>>,
     totalSeats |-> 2, availableSeats |-> 2]

InitialDataSet == {NoInitialData, ListingA, ListingB}

\* Mutant of FindPrice: the name is not compared, the first plan's price is taken.
FindPrice_FirstPlan(rentalPlans, name) ==
    IF rentalPlans = <<>> THEN Undefined
    ELSE IF Head(rentalPlans).price = 0 THEN Undefined
    ELSE Num(Head(rentalPlans).price)

\* initialData?.rentalPlans?.find(plan => plan.name === name)?.price || undefined
RECURSIVE FindPrice(_, _)
FindPrice(rentalPlans, name) ==
    IF rentalPlans = <<>> THEN Undefined
    ELSE IF Head(rentalPlans).name = name
         THEN (IF Head(rentalPlans).price = 0 THEN Undefined
               ELSE Num(Head(rentalPlans).price))
         ELSE FindPrice(Tail(rentalPlans), name)

\* useState(initialData?.images || [])
InitialImages(data) == IF data.defined THEN data.images ELSE <<>>

\* useState(initialData?.equipment || [{labName: '', ...}]); BioAlliedLabsForm only
InitialEquipment(k, data) ==
    IF k # Bio THEN <<>>
    ELSE IF data.defined THEN data.equipment ELSE <<EmptyEquipment>>

\* useState(initialData?.areaDetails || [{area: 0, ...}]); RawSpaceLabForm only
InitialAreaDetails(k, data) ==
    IF k # RawSpace THEN <<>>
    ELSE IF data.defined THEN data.areaDetails ELSE <<DefaultAreaDetail>>

\* useForm's defaultValues.
DefaultValues(k, data) ==
    [name |-> IF data.defined THEN data.name ELSE "",
     description |-> IF data.defined THEN data.description ELSE "",
     images |-> InitialImages(data),
     videoLink |-> IF data.defined THEN data.videoLink ELSE "",
     selectedRentalPlans |->
         IF data.defined
         THEN [i \in 1..Len(data.rentalPlans) |-> data.rentalPlans[i].name]
         ELSE <<>>,
     rentPerYear |-> FindPrice(data.rentalPlans, "Annual"),
     rentPerMonth |-> FindPrice(data.rentalPlans, "Monthly"),
     rentPerWeek |-> FindPrice(data.rentalPlans, "Weekly"),
     dayPassRent |-> FindPrice(data.rentalPlans, "One Day (24 Hours)")]
    @@ (IF k = Bio THEN [equipment |-> InitialEquipment(k, data)]
        ELSE IF k = RawSpace THEN [areaDetails |-> InitialAreaDetails(k, data)]
        ELSE [totalSeats |-> IF data.defined THEN data.totalSeats ELSE 0,
              availableSeats |-> IF data.defined THEN data.availableSeats ELSE 0])

-----------------------------------------------------------------------------
(* Errors: form.formState.errors as a set of (path, message) entries. *)

Err(path, message) == [path |-> path, message |-> message]

RootPath == <<"root">>

RootError(message) == Err(RootPath, message)

MsgUploadImage == "Please upload at least one image"
MsgNoValidEquipment == "Please add at least one equipment with all fields filled"
MsgNoValidAreaDetail == "Please add at least one area detail with all fields filled"
MsgSelectPlan == "Please select at least one rental plan"
MsgRentValues == "Please provide rent values for all selected rental plans"
MsgTotalSeats == "Total seats must be greater than 0"
MsgAvailableSeats == "Available seats cannot exceed total seats"
MsgSubmitFailed == "Failed to submit form. Please try again."

ErrorAt(errs, path) == {e \in errs : e.path = path}

-----------------------------------------------------------------------------
(* The zod schemas (formSchema of each form), run by zodResolver before     *)
(* handleFormSubmit is called.                                              *)

\* z.number().optional()
OptionalNumberErrors(path, x) ==
    IF x.tag = "nan" THEN {Err(path, "Expected number, received nan")} ELSE {}

\* z.number().min(least, message)
NumberMinErrors(path, x, least, message) ==
    IF x.tag = "nan" THEN {Err(path, "Expected number, received nan")}
    ELSE IF x.tag = "undefined" THEN {Err(path, "Required")}
    ELSE IF x.val < least THEN {Err(path, message)}
    ELSE {}

\* z.string().min(1, message)
StringMinErrors(path, str, message) ==
    IF str = "" THEN {Err(path, message)} ELSE {}

\* z.array(...).min(1, message)
ArrayMinErrors(path, seq, message) ==
    IF Len(seq) = 0 THEN {Err(path, message)} ELSE {}

\* The fields the three schemas share.
CommonSchemaErrors(v) ==
    StringMinErrors(<<"name">>, v.name, "Name is required")
    \cup StringMinErrors(<<"description">>, v.description, "Description is required")
    \cup ArrayMinErrors(<<"images">>, v.images, "At least one image is required")
    \cup ArrayMinErrors(<<"selectedRentalPlans">>, v.selectedRentalPlans,
                        "At least one rental plan is required")
    \cup OptionalNumberErrors(<<"rentPerYear">>, v.rentPerYear)
    \cup OptionalNumberErrors(<<"rentPerMonth">>, v.rentPerMonth)
    \cup OptionalNumberErrors(<<"rentPerWeek">>, v.rentPerWeek)
    \cup OptionalNumberErrors(<<"dayPassRent">>, v.dayPassRent)

EquipmentSchemaErrors(v) ==
    ArrayMinErrors(<<"equipment">>, v.equipment, "At least one equipment item is required")
    \cup UNION {
        StringMinErrors(<<"equipment", i - 1, "labName">>, v.equipment[i].labName,
                        "Lab name is required")
        \cup StringMinErrors(<<"equipment", i - 1, "equipmentName">>,
                             v.equipment[i].equipmentName, "Equipment name is required")
        \cup StringMinErrors(<<"equipment", i - 1, "capacityAndMake">>,
                             v.equipment[i].capacityAndMake, "Capacity and make is required")
        : i \in 1..Len(v.equipment)}

AreaDetailsSchemaErrors(v) ==
    ArrayMinErrors(<<"areaDetails">>, v.areaDetails, "At least one area detail is required")
    \cup UNION {
        NumberMinErrors(<<"areaDetails", i - 1, "area">>, v.areaDetails[i].area, 1,
                        "Area must be greater than 0")
        : i \in 1..Len(v.areaDetails)}

SeatsSchemaErrors(v) ==
    NumberMinErrors(<<"totalSeats">>, Num(v.totalSeats), 1, "Must have at least 1 seat")
    \cup NumberMinErrors(<<"availableSeats">>, Num(v.availableSeats), 0,
                         "Number must be greater than or equal to 0")

\* zodResolver(formSchema) of the form of kind k on the form-bound values.
SchemaErrors(k, v) ==
    CommonSchemaErrors(v)
    \cup (IF k = Bio THEN EquipmentSchemaErrors(v)
          ELSE IF k = RawSpace THEN AreaDetailsSchemaErrors(v)
          ELSE SeatsSchemaErrors(v))

-----------------------------------------------------------------------------
(* handleFormSubmit: the checks, in the order of the code, and the payload. *)

\* values.equipment.filter(eq => all three strings non-blank after trim)
ValidEquipment(v) ==
    SelectSeq(v.equipment,
              LAMBDA eq : /\ Trim(eq.labName) # ""
                          /\ Trim(eq.equipmentName) # ""
                          /\ Trim(eq.capacityAndMake) # "")

\* values.areaDetails.filter(area => area.area > 0 && type && furnishing && customisation)
ValidAreaDetails(v) ==
    SelectSeq(v.areaDetails,
              LAMBDA a : /\ a.area.tag = "number" /\ a.area.val > 0
                         /\ a.type # "" /\ a.furnishing # "" /\ a.customisation # "")

\* values.selectedRentalPlans.every(plan => !!values[price field of plan])
RentValidation(v) ==
    \A i \in 1..Len(v.selectedRentalPlans) :
        /\ v.selectedRentalPlans[i] \in Plans
        /\ Truthy(v[RentField(v.selectedRentalPlans[i])])

\* Mutant of HandlerError: the check of the local images list left out.
HandlerError_NoImagesCheck(k, v, imgs) ==
    IF k = Bio /\ Len(ValidEquipment(v)) = 0 THEN {RootError(MsgNoValidEquipment)}
    ELSE IF k = RawSpace /\ Len(ValidAreaDetails(v)) = 0
         THEN {RootError(MsgNoValidAreaDetail)}
    ELSE IF Len(v.selectedRentalPlans) = 0 THEN {RootError(MsgSelectPlan)}
    ELSE IF ~RentValidation(v) THEN {RootError(MsgRentValues)}
    ELSE IF k = Coworking /\ v.totalSeats <= 0
         THEN {Err(<<"totalSeats">>, MsgTotalSeats)}
    ELSE IF k = Coworking /\ v.availableSeats > v.totalSeats
         THEN {Err(<<"availableSeats">>, MsgAvailableSeats)}
    ELSE {}

\* Mutant of HandlerError: the two seat counts are not compared.
HandlerError_NoSeatsComparison(k, v, imgs) ==
    IF Len(imgs) = 0 THEN {RootError(MsgUploadImage)}
    ELSE IF k = Bio /\ Len(ValidEquipment(v)) = 0 THEN {RootError(MsgNoValidEquipment)}
    ELSE IF k = RawSpace /\ Len(ValidAreaDetails(v)) = 0
         THEN {RootError(MsgNoValidAreaDetail)}
    ELSE IF Len(v.selectedRentalPlans) = 0 THEN {RootError(MsgSelectPlan)}
    ELSE IF ~RentValidation(v) THEN {RootError(MsgRentValues)}
    ELSE IF k = Coworking /\ v.totalSeats <= 0
         THEN {Err(<<"totalSeats">>, MsgTotalSeats)}
    ELSE {}

\* Mutant of HandlerError: the rent values are checked before the images.
HandlerError_RentBeforeImages(k, v, imgs) ==
    IF Len(v.selectedRentalPlans) > 0 /\ ~RentValidation(v) THEN {RootError(MsgRentValues)}
    ELSE IF Len(imgs) = 0 THEN {RootError(MsgUploadImage)}
    ELSE IF k = Bio /\ Len(ValidEquipment(v)) = 0 THEN {RootError(MsgNoValidEquipment)}
    ELSE IF k = RawSpace /\ Len(ValidAreaDetails(v)) = 0
         THEN {RootError(MsgNoValidAreaDetail)}
    ELSE IF Len(v.selectedRentalPlans) = 0 THEN {RootError(MsgSelectPlan)}
    ELSE IF k = Coworking /\ v.totalSeats <= 0
         THEN {Err(<<"totalSeats">>, MsgTotalSeats)}
    ELSE IF k = Coworking /\ v.availableSeats > v.totalSeats
         THEN {Err(<<"availableSeats">>, MsgAvailableSeats)}
    ELSE {}

\* Mutant of HandlerError: the comparison of the two seat counts reversed.
HandlerError_SeatsReversed(k, v, imgs) ==
    IF Len(imgs) = 0 THEN {RootError(MsgUploadImage)}
    ELSE IF k = Bio /\ Len(ValidEquipment(v)) = 0 THEN {RootError(MsgNoValidEquipment)}
    ELSE IF k = RawSpace /\ Len(ValidAreaDetails(v)) = 0
         THEN {RootError(MsgNoValidAreaDetail)}
    ELSE IF Len(v.selectedRentalPlans) = 0 THEN {RootError(MsgSelectPlan)}
    ELSE IF ~RentValidation(v) THEN {RootError(MsgRentValues)}
    ELSE IF k = Coworking /\ v.totalSeats <= 0
         THEN {Err(<<"totalSeats">>, MsgTotalSeats)}
    ELSE IF k = Coworking /\ v.availableSeats < v.totalSeats
         THEN {Err(<<"availableSeats">>, MsgAvailableSeats)}
    ELSE {}

\* The error handleFormSubmit sets before it returns early, {} when every check
\* passes.  imgs is the local images list.
HandlerError(k, v, imgs) ==
    IF Len(imgs) = 0 THEN {RootError(MsgUploadImage)}
    ELSE IF k = Bio /\ Len(ValidEquipment(v)) = 0 THEN {RootError(MsgNoValidEquipment)}
    ELSE IF k = RawSpace /\ Len(ValidAreaDetails(v)) = 0
         THEN {RootError(MsgNoValidAreaDetail)}
    ELSE IF Len(v.selectedRentalPlans) = 0 THEN {RootError(MsgSelectPlan)}
    ELSE IF ~RentValidation(v) THEN {RootError(MsgRentValues)}
    ELSE IF k = Coworking /\ v.totalSeats <= 0
         THEN {Err(<<"totalSeats">>, MsgTotalSeats)}
    ELSE IF k = Coworking /\ v.availableSeats > v.totalSeats
         THEN {Err(<<"availableSeats">>, MsgAvailableSeats)}
    ELSE {}

\* Mutant of RentalPlansPayload: the 'Weekly' case reads rentPerMonth.
RentalPlansPayload_WeeklyReadsMonthly(v) ==
    [i \in 1..Len(v.selectedRentalPlans) |->
        [name |-> v.selectedRentalPlans[i],
         price |-> IF v.selectedRentalPlans[i] = "Weekly" THEN OrZero(v.rentPerMonth)
                   ELSE IF v.selectedRentalPlans[i] \in Plans
                   THEN OrZero(v[RentField(v.selectedRentalPlans[i])])
                   ELSE 0,
         duration |-> v.selectedRentalPlans[i]]]

\* rentalPlans: values.selectedRentalPlans.map(plan => ({name, price, duration}))
RentalPlansPayload(v) ==
    [i \in 1..Len(v.selectedRentalPlans) |->
        [name |-> v.selectedRentalPlans[i],
         price |-> IF v.selectedRentalPlans[i] \in Plans
                   THEN OrZero(v[RentField(v.selectedRentalPlans[i])])
                   ELSE 0,
         duration |-> v.selectedRentalPlans[i]]]

\* submissionData
SubmissionData(k, v, imgs) ==
    [type |-> k, name |-> v.name, description |-> v.description, images |-> imgs,
     videoLink |-> v.videoLink, rentalPlans |-> RentalPlansPayload(v)]
    @@ (IF k = Bio
        THEN [equipment |-> ValidEquipment(v),
              rentPerYear |-> v.rentPerYear, rentPerMonth |-> v.rentPerMonth,
              rentPerWeek |-> v.rentPerWeek, dayPassRent |-> v.dayPassRent]
        ELSE IF k = RawSpace
        THEN [areaDetails |->
                 LET valid == ValidAreaDetails(v)
                 IN [i \in 1..Len(valid) |->
                        [area |-> valid[i].area.val, type |-> valid[i].type,
                         furnishing |-> valid[i].furnishing,
                         customisation |-> valid[i].customisation]]]
        ELSE [totalSeats |-> v.totalSeats, availableSeats |-> v.availableSeats])

-----------------------------------------------------------------------------
(* What the user can type or pick. *)

\* The text of a number input: emptied, or a number typed into it.
EmptyInput == [tag |-> "empty", val |-> 0]
Typed(n) == [tag |-> "number", val |-> n]

Names == {"", "Lab A"}
Descriptions == {"", "Desc A"}
VideoLinks == {"", "v1"}
ImageLists == {<<>>, <<"u1">>, <<"u1", "u2">>}
RentInputs == {EmptyInput, Typed(-5), Typed(0), Typed(5000)}
SeatInputs == {EmptyInput, Typed(-5), Typed(1), Typed(3)}
AreaInputs == {EmptyInput, Typed(0), Typed(100)}
RowStrings == {"", " ", "X1"}
EquipmentFields == {"labName", "equipmentName", "capacityAndMake"}
AreaTypes == {"Covered", "Uncovered"}
Furnishings == {"Furnished", "Not Furnished"}
Customisations == {"Open to Customisation", "Cannot be Customised"}

\* e.target.valueAsNumber
ValueAsNumber(input) == IF input.tag = "empty" THEN NaN ELSE Num(input.val)

\* e.target.value === '' ? 0 : Math.max(0, Number(e.target.value))
ClampedNumber(input) == IF input.tag = "empty" THEN 0 ELSE Max(0, input.val)

-----------------------------------------------------------------------------
(* The sign-in page (SignIn): the session of useSession, the 'from' query    *)
(* parameter, the redirect effect and the credentials form.                  *)

\* useSession's data: null, a session without user, a session of a user.
NullSession == [present |-> FALSE, user |-> [defined |-> FALSE, userType |-> ""]]
SessionWithoutUser == [present |-> TRUE, user |-> [defined |-> FALSE, userType |-> ""]]
SessionOf(userType) == [present |-> TRUE, user |-> [defined |-> TRUE, userType |-> userType]]

UserTypes == {"startup", "serviceProvider", "admin"}

\* What useSession returns: data is null unless the status is 'authenticated'.
SessionStates ==
    {[status |-> "loading", session |-> NullSession],
     [status |-> "unauthenticated", session |-> NullSession],
     [status |-> "authenticated", session |-> SessionWithoutUser]}
    \cup {[status |-> "authenticated", session |-> SessionOf(t)] : t \in UserTypes}

\* searchParams.get("from") || ""
Froms == {"", "/bookings"}

\* router.push of the last step: none, or its target.
NoPush == [pushed |-> FALSE, to |-> ""]
Push(to) == [pushed |-> TRUE, to |-> to]

\* status === "authenticated" && session?.user
ShouldRedirect(status, session) ==
    status = "authenticated" /\ session.present /\ session.user.defined

\* Mutant of RedirectTo: the 'from' parameter is ignored.
RedirectTo_IgnoresFrom(from, session) ==
    IF session.user.userType = "startup" THEN "/startup/dashboard"
    ELSE "/service-provider/dashboard"

\* redirectTo
RedirectTo(from, session) ==
    IF from # "" THEN from
    ELSE IF session.user.userType = "startup" THEN "/startup/dashboard"
    ELSE "/service-provider/dashboard"

\* What signIn("credentials", {..., redirect: false}) resolves to: undefined,
\* or a response whose error is null ("" here) or a string.
ResultUndefined == [defined |-> FALSE, error |-> ""]
ResultOk == [defined |-> TRUE, error |-> ""]
ResultError(error) == [defined |-> TRUE, error |-> error]

SignInErrors == {"No user found with this email", "Invalid password", "CredentialsSignin"}

SignInResults == {ResultUndefined, ResultOk} \cup {ResultError(e) : e \in SignInErrors}

\* result?.error
HasError(result) == result.defined /\ result.error # ""

MsgNoAccount ==
    "No account found with this email address. Please check your email or create a new account."
MsgIncorrectPassword ==
    "Incorrect password. Please try again or use the forgot password option."
MsgSignInFailed == "Failed to sign in. Please try again."
MsgUnexpected == "An unexpected error occurred. Please try again."

\* Mutant of SignInErrorMessage: every error gets the generic message.
SignInErrorMessage_Generic(error) == MsgSignInFailed

\* The message of the root error set for result.error
SignInErrorMessage(error) ==
    IF error = "No user found with this email" THEN MsgNoAccount
    ELSE IF error = "Invalid password" THEN MsgIncorrectPassword
    ELSE MsgSignInFailed

\* zodResolver(signInSchema) on the typed credentials: well-formed or not.
SignInSchemaErrors(wellFormed) ==
    IF wellFormed THEN {} ELSE {Err(<<"email">>, "Invalid email")}

\* The page after its first render, its effect not yet run.
SignInMounted(s, from) ==
    [status |-> s.status, session |-> s.session, from |-> from,
     isLoading |-> FALSE, isSubmitting |-> FALSE, errors |-> {},
     calling |-> FALSE, effectDue |-> TRUE, router |-> NoPush,
     result |-> ResultUndefined, op |-> "init"]

\* LoadingButton loading={isLoading || isSubmitting}
SignInEnabled(p) == ~(p.isLoading \/ p.isSubmitting)

-----------------------------------------------------------------------------
(* Construction. *)

NoOp == [op |-> "init", plan |-> "", index |-> -1, called |-> FALSE, reset |-> FALSE]

Op(name) == [NoOp EXCEPT !.op = name]

Init ==
    /\ kind \in Kinds
    /\ initialData \in InitialDataSet
    /\ images = InitialImages(initialData)
    /\ equipment = InitialEquipment(kind, initialData)
    /\ areaDetails = InitialAreaDetails(kind, initialData)
    /\ values = DefaultValues(kind, initialData)
    /\ errors = {}
    /\ isSubmitting = FALSE
    /\ pending = <<>>
    /\ lastOp = NoOp
    /\ nEdits = 0
    /\ signInPage = SignInMounted([status |-> "loading", session |-> NullSession], "")

-----------------------------------------------------------------------------
(* Edits.  Every input stays editable while a submission is in flight; only *)
(* the submit button is disabled.  errors holds what the last submit        *)
(* attempt left there.                                                      *)

Edit(op) ==
    /\ nEdits < MaxEdits
    /\ nEdits' = nEdits + 1
    /\ lastOp' = op
    /\ UNCHANGED <<kind, initialData, errors, isSubmitting, pending, signInPage>>

\* <Input {...field} /> of name
SetName(str) ==
    /\ values' = [values EXCEPT !.name = str]
    /\ Edit(Op("setName"))
    /\ UNCHANGED <<images, equipment, areaDetails>>

\* <Textarea {...field} /> of description
SetDescription(str) ==
    /\ values' = [values EXCEPT !.description = str]
    /\ Edit(Op("setDescription"))
    /\ UNCHANGED <<images, equipment, areaDetails>>

\* <Input {...field} /> of videoLink
SetVideoLink(str) ==
    /\ values' = [values EXCEPT !.videoLink = str]
    /\ Edit(Op("setVideoLink"))
    /\ UNCHANGED <<images, equipment, areaDetails>>

\* handleImageUpload(newImages)
handleImageUpload(newImages) ==
    /\ images' = newImages
    /\ values' = [values EXCEPT !.images = newImages]
    /\ Edit(Op("handleImageUpload"))
    /\ UNCHANGED <<equipment, areaDetails>>

\* ImageUpload's onRemove(url)
onRemove(url) ==
    /\ Includes(images, url)
    /\ LET newImages == SelectSeq(images, LAMBDA image : image # url)
       IN /\ images' = newImages
          /\ values' = [values EXCEPT !.images = newImages]
    /\ Edit(Op("onRemove"))
    /\ UNCHANGED <<equipment, areaDetails>>

\* The price field a form clears when plan is unchecked: BioAlliedLabsForm's
\* onCheckedChange clears none.
ClearsRentOnUncheck(k) == k \in {Coworking, RawSpace}

\* The form-bound values after the rental-plan Checkbox of plan changes to checked.
ValuesAfterCheckedChange(k, v, plan, checked) ==
    IF checked
    THEN [v EXCEPT !.selectedRentalPlans = Append(@, plan)]
    ELSE LET updatedPlans == SelectSeq(v.selectedRentalPlans, LAMBDA p : p # plan)
         IN IF ClearsRentOnUncheck(k)
            THEN [v EXCEPT !.selectedRentalPlans = updatedPlans,
                           ![RentField(plan)] = Undefined]
            ELSE [v EXCEPT !.selectedRentalPlans = updatedPlans]

\* Mutant of onCheckedChange: every click is taken as a check.
onCheckedChange_AlwaysChecked(plan) ==
    /\ values' = ValuesAfterCheckedChange(kind, values, plan, TRUE)
    /\ Edit([Op("check") EXCEPT !.plan = plan])
    /\ UNCHANGED <<images, equipment, areaDetails>>

\* onCheckedChange of the Checkbox of plan: the box is checked iff the plan is
\* selected, so a click passes the opposite.
onCheckedChange(plan) ==
    LET checked == ~Includes(values.selectedRentalPlans, plan)
    IN /\ values' = ValuesAfterCheckedChange(kind, values, plan, checked)
       /\ Edit([Op(IF checked THEN "check" ELSE "uncheck") EXCEPT !.plan = plan])
       /\ UNCHANGED <<images, equipment, areaDetails>>

\* Mutant of RentInputsShown: the rentPerWeek input watches 'Monthly'.
RentInputsShown_WeeklyWatchesMonthly(v) ==
    (IF Includes(v.selectedRentalPlans, "Annual") THEN {"rentPerYear"} ELSE {})
    \cup (IF Includes(v.selectedRentalPlans, "Monthly") THEN {"rentPerMonth"} ELSE {})
    \cup (IF Includes(v.selectedRentalPlans, "Monthly") THEN {"rentPerWeek"} ELSE {})
    \cup (IF Includes(v.selectedRentalPlans, "One Day (24 Hours)")
          THEN {"dayPassRent"} ELSE {})

\* The price inputs that are rendered: one conditional block per price field,
\* {form.watch('selectedRentalPlans')?.includes('Annual') && <FormField name="rentPerYear" .../>}
RentInputsShown(v) ==
    (IF Includes(v.selectedRentalPlans, "Annual") THEN {"rentPerYear"} ELSE {})
    \cup (IF Includes(v.selectedRentalPlans, "Monthly") THEN {"rentPerMonth"} ELSE {})
    \cup (IF Includes(v.selectedRentalPlans, "Weekly") THEN {"rentPerWeek"} ELSE {})
    \cup (IF Includes(v.selectedRentalPlans, "One Day (24 Hours)")
          THEN {"dayPassRent"} ELSE {})

\* The price input of a plan is on the page.
RentInputVisible(v, plan) == RentField(plan) \in RentInputsShown(v)

\* onChange of a price input
SetRent(plan, input) ==
    /\ RentInputVisible(values, plan)
    /\ values' = [values EXCEPT ![RentField(plan)] =
                     IF kind = Coworking THEN Num(ClampedNumber(input))
                     ELSE ValueAsNumber(input)]
    /\ Edit([Op("setRent") EXCEPT !.plan = plan])
    /\ UNCHANGED <<images, equipment, areaDetails>>

\* onChange of the totalSeats input (CoworkingSpacesForm)
SetTotalSeats(input) ==
    /\ kind = Coworking
    /\ values' = [values EXCEPT !.totalSeats = ClampedNumber(input)]
    /\ Edit(Op("setTotalSeats"))
    /\ UNCHANGED <<images, equipment, areaDetails>>

\* onChange of the availableSeats input (CoworkingSpacesForm)
SetAvailableSeats(input) ==
    /\ kind = Coworking
    /\ values' = [values EXCEPT !.availableSeats = ClampedNumber(input)]
    /\ Edit(Op("setAvailableSeats"))
    /\ UNCHANGED <<images, equipment, areaDetails>>

-----------------------------------------------------------------------------
(* The repeatable rows.  The rows rendered are those of the local list; the *)
(* inputs of row index are bound to the form-bound record at that index.    *)

\* Mutant of addEquipment: the new record is put in front of both lists.
addEquipment_Prepends ==
    /\ kind = Bio
    /\ Len(equipment) < MaxRows
    /\ equipment' = <<EmptyEquipment>> \o equipment
    /\ values' = [values EXCEPT !.equipment = <<EmptyEquipment>> \o @]
    /\ Edit(Op("addEquipment"))
    /\ UNCHANGED <<images, areaDetails>>

addEquipment ==
    /\ kind = Bio
    /\ Len(equipment) < MaxRows
    /\ equipment' = Append(equipment, EmptyEquipment)
    /\ values' = [values EXCEPT !.equipment = Append(@, EmptyEquipment)]
    /\ Edit(Op("addEquipment"))
    /\ UNCHANGED <<images, areaDetails>>

\* Mutant of removeEquipment: the Remove button is rendered for every row.
removeEquipment_EveryRow(index) ==
    /\ kind = Bio
    /\ index >= 0 /\ index < Len(equipment)
    /\ equipment' = RemoveIndex(equipment, index)
    /\ values' = [values EXCEPT !.equipment = RemoveIndex(@, index)]
    /\ Edit([Op("removeEquipment") EXCEPT !.index = index])
    /\ UNCHANGED <<images, areaDetails>>

\* The Remove button is rendered for the rows with index > 0.
removeEquipment(index) ==
    /\ kind = Bio
    /\ index > 0 /\ index < Len(equipment)
    /\ equipment' = RemoveIndex(equipment, index)
    /\ values' = [values EXCEPT !.equipment = RemoveIndex(@, index)]
    /\ Edit([Op("removeEquipment") EXCEPT !.index = index])
    /\ UNCHANGED <<images, areaDetails>>

\* <Input {...field} /> of equipment.index.field
SetEquipmentField(index, field, str) ==
    /\ kind = Bio
    /\ index < Len(equipment) /\ index < Len(values.equipment)
    /\ values' = [values EXCEPT !.equipment[index + 1][field] = str]
    /\ Edit([Op("setEquipmentField") EXCEPT !.index = index])
    /\ UNCHANGED <<images, equipment, areaDetails>>

addAreaDetail ==
    /\ kind = RawSpace
    /\ Len(areaDetails) < MaxRows
    /\ areaDetails' = Append(areaDetails, DefaultAreaDetail)
    /\ values' = [values EXCEPT !.areaDetails = Append(@, DefaultAreaDetail)]
    /\ Edit(Op("addAreaDetail"))
    /\ UNCHANGED <<images, equipment>>

removeAreaDetail(index) ==
    /\ kind = RawSpace
    /\ index > 0 /\ index < Len(areaDetails)
    /\ areaDetails' = RemoveIndex(areaDetails, index)
    /\ values' = [values EXCEPT !.areaDetails = RemoveIndex(@, index)]
    /\ Edit([Op("removeAreaDetail") EXCEPT !.index = index])
    /\ UNCHANGED <<images, equipment>>

\* onChange of the area input of areaDetails.index
SetArea(index, input) ==
    /\ kind = RawSpace
    /\ index < Len(areaDetails) /\ index < Len(values.areaDetails)
    /\ values' = [values EXCEPT !.areaDetails[index + 1].area = ValueAsNumber(input)]
    /\ Edit([Op("setArea") EXCEPT !.index = index])
    /\ UNCHANGED <<images, equipment, areaDetails>>

\* onValueChange of a Select of areaDetails.index
SetAreaSelect(index, field, choice) ==
    /\ kind = RawSpace
    /\ index < Len(areaDetails) /\ index < Len(values.areaDetails)
    /\ values' = [values EXCEPT !.areaDetails[index + 1][field] = choice]
    /\ Edit([Op("setAreaSelect") EXCEPT !.index = index])
    /\ UNCHANGED <<images, equipment, areaDetails>>

-----------------------------------------------------------------------------
(* Submission: form.handleSubmit(handleFormSubmit).                         *)

CurrentDraft ==
    [images |-> images, equipment |-> equipment, areaDetails |-> areaDetails,
     values |-> values]

\* form.reset(); setImages([]); setEquipment([...]) / setAreaDetails([...])
\* form.reset() without arguments restores useForm's defaultValues.
ResetDraft(k, data) ==
    [images |-> <<>>,
     equipment |-> IF k = Bio THEN <<EmptyEquipment>> ELSE <<>>,
     areaDetails |-> IF k = RawSpace THEN <<DefaultAreaDetail>> ELSE <<>>,
     values |-> DefaultValues(k, data)]

\* Mutant of DraftAfterSettle: the reset statements run however the call settled.
DraftAfterSettle_AlwaysReset(ok, k, data, cur) ==
    [draft |-> ResetDraft(k, data), reset |-> TRUE]

\* The draft after the awaited onSubmit call settles, and whether the reset
\* statements ran: they follow the await, the catch block skips them.
DraftAfterSettle(ok, k, data, cur) ==
    IF ok THEN [draft |-> ResetDraft(k, data), reset |-> TRUE]
    ELSE [draft |-> cur, reset |-> FALSE]

\* Mutant of SubmitEnabled: the button is never disabled.
SubmitEnabled_Always == TRUE

\* The submit button: disabled={form.formState.isSubmitting}
SubmitEnabled == ~isSubmitting

\* Mutant of Rejection: the form is built without the resolver.
Rejection_NoResolver(k, v, imgs) == HandlerError(k, v, imgs)

\* The errors that end a submit attempt before onSubmit is called, {} when
\* there are none: the resolver's, or else the one handleFormSubmit sets.
Rejection(k, v, imgs) ==
    IF SchemaErrors(k, v) # {} THEN SchemaErrors(k, v) ELSE HandlerError(k, v, imgs)

\* Mutant of Submit: a rejected attempt resets the draft.
Submit_ResetsOnRejection ==
    /\ SubmitEnabled
    /\ LET rejection == Rejection(kind, values, images)
           after == ResetDraft(kind, initialData)
       IN IF rejection # {}
          THEN /\ errors' = rejection
               /\ isSubmitting' = FALSE
               /\ lastOp' = Op("handleSubmit")
               /\ images' = after.images
               /\ equipment' = after.equipment
               /\ areaDetails' = after.areaDetails
               /\ values' = after.values
               /\ UNCHANGED pending
          ELSE /\ errors' = {}
               /\ isSubmitting' = TRUE
               /\ pending' = Append(pending, SubmissionData(kind, values, images))
               /\ lastOp' = [Op("handleSubmit") EXCEPT !.called = TRUE]
               /\ UNCHANGED <<images, equipment, areaDetails, values>>
    /\ UNCHANGED <<kind, initialData, nEdits, signInPage>>

\* A click on the submit button, up to the await of onSubmit.
Submit ==
    /\ SubmitEnabled
    /\ LET rejection == Rejection(kind, values, images)
       IN IF rejection # {}
          THEN /\ errors' = rejection
               /\ isSubmitting' = FALSE
               /\ lastOp' = Op("handleSubmit")
               /\ UNCHANGED pending
          ELSE /\ errors' = {}
               /\ isSubmitting' = TRUE
               /\ pending' = Append(pending, SubmissionData(kind, values, images))
               /\ lastOp' = [Op("handleSubmit") EXCEPT !.called = TRUE]
    /\ UNCHANGED <<kind, initialData, images, equipment, areaDetails, values, nEdits,
                   signInPage>>

RemoveCall(i) == [j \in 1..(Len(pending) - 1) |-> IF j < i THEN pending[j] ELSE pending[j + 1]]

Settle(i, ok, op) ==
    /\ pending' = RemoveCall(i)
    /\ LET after == DraftAfterSettle(ok, kind, initialData, CurrentDraft)
       IN /\ images' = after.draft.images
          /\ equipment' = after.draft.equipment
          /\ areaDetails' = after.draft.areaDetails
          /\ values' = after.draft.values
          /\ lastOp' = [Op(op) EXCEPT !.reset = after.reset]
    /\ isSubmitting' = FALSE
    /\ UNCHANGED <<kind, initialData, nEdits, signInPage>>

\* The awaited onSubmit call resolves: the statements after the await run.
OnSubmitResolved ==
    /\ \E i \in 1..Len(pending) : Settle(i, TRUE, "onSubmitResolved")
    /\ errors' = {}

\* Mutant of OnSubmitRejected: the catch block calls onSubmit again.
OnSubmitRejected_Retries ==
    /\ pending # <<>>
    /\ lastOp' = Op("onSubmitRejected")
    /\ errors' = (errors \ ErrorAt(errors, RootPath)) \cup {RootError(MsgSubmitFailed)}
    /\ UNCHANGED <<kind, initialData, images, equipment, areaDetails, values,
                   isSubmitting, pending, nEdits, signInPage>>

\* Mutant of OnSubmitRejected: the catch block swallows the error.
OnSubmitRejected_Swallowed ==
    /\ \E i \in 1..Len(pending) : Settle(i, FALSE, "onSubmitRejected")
    /\ errors' = errors

\* The awaited onSubmit call rejects: the catch block runs.
OnSubmitRejected ==
    /\ \E i \in 1..Len(pending) : Settle(i, FALSE, "onSubmitRejected")
    /\ errors' = (errors \ ErrorAt(errors, RootPath)) \cup {RootError(MsgSubmitFailed)}

-----------------------------------------------------------------------------

Next ==
    \/ \E str \in Names : SetName(str)
    \/ \E str \in Descriptions : SetDescription(str)
    \/ \E str \in VideoLinks : SetVideoLink(str)
    \/ \E newImages \in ImageLists : handleImageUpload(newImages)
    \/ \E url \in {"u1", "u2"} : onRemove(url)
    \/ \E plan \in Plans : onCheckedChange(plan)
    \/ \E plan \in Plans, input \in RentInputs : SetRent(plan, input)
    \/ \E input \in SeatInputs : SetTotalSeats(input)
    \/ \E input \in SeatInputs : SetAvailableSeats(input)
    \/ addEquipment
    \/ \E index \in 0..MaxRows : removeEquipment(index)
    \/ \E index \in 0..MaxRows, field \in EquipmentFields, str \in RowStrings :
           SetEquipmentField(index, field, str)
    \/ addAreaDetail
    \/ \E index \in 0..MaxRows : removeAreaDetail(index)
    \/ \E index \in 0..MaxRows, input \in AreaInputs : SetArea(index, input)
    \/ \E index \in 0..MaxRows, choice \in AreaTypes : SetAreaSelect(index, "type", choice)
    \/ \E index \in 0..MaxRows, choice \in Furnishings :
           SetAreaSelect(index, "furnishing", choice)
    \/ \E index \in 0..MaxRows, choice \in Customisations :
           SetAreaSelect(index, "customisation", choice)
    \/ Submit
    \/ OnSubmitResolved
    \/ OnSubmitRejected

Spec == Init /\ [][Next]_vars

\* The external onSubmit call eventually resolves or rejects.
LiveSpec == Spec /\ WF_vars(OnSubmitResolved \/ OnSubmitRejected)

-----------------------------------------------------------------------------
(* The sign-in page as a state machine of its own; the listing form is not   *)
(* on this page.                                                             *)

FormUntouched ==
    UNCHANGED <<kind, initialData, images, equipment, areaDetails, values, errors,
                isSubmitting, pending, lastOp, nEdits>>

SignInInit ==
    /\ kind = Bio
    /\ initialData = NoInitialData
    /\ images = InitialImages(initialData)
    /\ equipment = InitialEquipment(kind, initialData)
    /\ areaDetails = InitialAreaDetails(kind, initialData)
    /\ values = DefaultValues(kind, initialData)
    /\ errors = {}
    /\ isSubmitting = FALSE
    /\ pending = <<>>
    /\ lastOp = NoOp
    /\ nEdits = 0
    /\ \E s \in SessionStates, from \in Froms : signInPage = SignInMounted(s, from)

\* The effect runs after the first render and after a render in which a
\* dependency (session, status) changed.
useEffect ==
    /\ signInPage.effectDue
    /\ signInPage' =
         [signInPage EXCEPT
            !.effectDue = FALSE,
            !.router = IF ShouldRedirect(signInPage.status, signInPage.session)
                       THEN Push(RedirectTo(signInPage.from, signInPage.session))
                       ELSE NoPush,
            !.op = "useEffect"]
    /\ FormUntouched

\* useSession reports another status or session.
SessionChanged(s) ==
    /\ <<s.status, s.session>> # <<signInPage.status, signInPage.session>>
    /\ signInPage' = [signInPage EXCEPT !.status = s.status, !.session = s.session,
                                        !.effectDue = TRUE, !.router = NoPush,
                                        !.op = "sessionChanged"]
    /\ FormUntouched

\* handleSubmit(onSubmit), up to the await of signIn.
SignInSubmit(wellFormed) ==
    /\ SignInEnabled(signInPage)
    /\ signInPage' =
         IF SignInSchemaErrors(wellFormed) # {}
         THEN [signInPage EXCEPT !.errors = SignInSchemaErrors(wellFormed),
                                 !.router = NoPush, !.op = "handleSubmit"]
         ELSE [signInPage EXCEPT !.errors = {}, !.isLoading = TRUE,
                                 !.isSubmitting = TRUE, !.calling = TRUE,
                                 !.router = NoPush, !.op = "handleSubmit"]
    /\ FormUntouched

\* signIn resolves: onSubmit continues after the await.
SignInReturned(result) ==
    /\ signInPage.calling
    /\ signInPage' =
         IF HasError(result)
         THEN [signInPage EXCEPT
                 !.errors = {RootError(SignInErrorMessage(result.error))},
                 !.isLoading = FALSE, !.isSubmitting = FALSE, !.calling = FALSE,
                 !.result = result, !.router = NoPush, !.op = "signInReturned"]
         ELSE [signInPage EXCEPT
                 !.isSubmitting = FALSE, !.calling = FALSE,
                 !.result = result, !.router = NoPush, !.op = "signInReturned"]
    /\ FormUntouched

\* signIn throws: the catch block.
SignInThrew ==
    /\ signInPage.calling
    /\ signInPage' = [signInPage EXCEPT
                        !.errors = {RootError(MsgUnexpected)},
                        !.isLoading = FALSE, !.isSubmitting = FALSE, !.calling = FALSE,
                        !.router = NoPush, !.op = "signInThrew"]
    /\ FormUntouched

SignInNext ==
    \/ useEffect
    \/ \E s \in SessionStates : SessionChanged(s)
    \/ \E wellFormed \in BOOLEAN : SignInSubmit(wellFormed)
    \/ \E result \in SignInResults : SignInReturned(result)
    \/ SignInThrew

SignInSpec == SignInInit /\ [][SignInNext]_vars

-----------------------------------------------------------------------------
(* Vocabulary of the properties. *)

\* A step of the submit button's handler.
SubmitStep == lastOp'.op = "handleSubmit"

\* A step that uses no user edit: a submit click or a settled onSubmit call.
NoEditStep == nEdits' = nEdits

Rent(v, plan) == v[RentField(plan)]

PositiveRent(x) == x.tag = "number" /\ x.val > 0

SelectedPlans(v) == {v.selectedRentalPlans[i] : i \in 1..Len(v.selectedRentalPlans)}

\* Every repeatable record of the draft has all its sub-fields filled in.
RowsComplete(k, v) ==
    /\ k = Bio =>
         /\ Len(v.equipment) >= 1
         /\ \A i \in 1..Len(v.equipment) :
                \A f \in EquipmentFields : v.equipment[i][f] \notin {"", " ", "  "}
    /\ k = RawSpace =>
         /\ Len(v.areaDetails) >= 1
         /\ \A i \in 1..Len(v.areaDetails) :
                v.areaDetails[i].area.tag = "number" /\ v.areaDetails[i].area.val >= 1

\* The repeatable records pass the checks of a submit attempt: no sub-field is
\* empty, and one record at least has no blank sub-field.
RowsAccepted(k, v) ==
    /\ k = Bio =>
         /\ \A i \in 1..Len(v.equipment) :
                \A f \in EquipmentFields : v.equipment[i][f] # ""
         /\ \E i \in 1..Len(v.equipment) :
                \A f \in EquipmentFields : v.equipment[i][f] \notin {"", " ", "  "}
    /\ k = RawSpace => RowsComplete(k, v)

\* The draft has a name, a description, an image and well-formed numbers.
FieldsValid(k, v, imgs) ==
    /\ v.name # "" /\ v.description # ""
    /\ Len(imgs) > 0 /\ Len(v.images) > 0
    /\ \A plan \in Plans \ SelectedPlans(v) : Rent(v, plan).tag # "nan"
    /\ k = Coworking => v.totalSeats >= 1 /\ v.availableSeats >= 0

\* The draft is valid in everything but its rental plans, their prices and
\* the relation between the two seat counts.
BasicsValid(k, v, imgs) == FieldsValid(k, v, imgs) /\ RowsComplete(k, v)

\* Every check a submit attempt makes passes on the draft.
AllChecksPass(k, v, imgs) ==
    /\ FieldsValid(k, v, imgs)
    /\ RowsAccepted(k, v)
    /\ SelectedPlans(v) # {}
    /\ \A plan \in SelectedPlans(v) : Rent(v, plan).tag = "number" /\ Rent(v, plan).val # 0
    /\ k = Coworking => v.availableSeats <= v.totalSeats

\* after is seq without the record at index (counted from 0), the others in order.
RemovedAt(seq, after, index) ==
    /\ Len(after) = Len(seq) - 1
    /\ \A j \in 1..Len(after) : after[j] = IF j <= index THEN seq[j] ELSE seq[j + 1]

EmptyDraft(k) == ResetDraft(k, NoInitialData)

-----------------------------------------------------------------------------
(* The claims. *)

\* C1: in each listing form, a submit attempt on a draft that has no image is
\* rejected with the root error 'Please upload at least one image' and onSubmit
\* is not invoked.
C1_NoImageUploadError ==
    [][(SubmitStep /\ Len(images) = 0)
         => (RootError(MsgUploadImage) \in errors' /\ pending' = pending)]_vars

\* C2: a submit attempt on an otherwise valid draft with a selected plan whose
\* price field is unset or not positive fails with the root error 'Please
\* provide rent values for all selected rental plans'.
C2_MissingRentRejected ==
    [][(/\ SubmitStep
        /\ BasicsValid(kind, values, images)
        /\ kind = Coworking => values.availableSeats <= values.totalSeats
        /\ \E plan \in SelectedPlans(values) : ~PositiveRent(Rent(values, plan)))
         => (RootError(MsgRentValues) \in errors' /\ pending' = pending)]_vars

\* C3: unchecking a rental plan removes it from selectedRentalPlans and, in the
\* same step, sets the plan's price field to undefined, in each of the three forms.
C3_UncheckClearsPrice ==
    [][lastOp'.op = "uncheck"
         => (/\ lastOp'.plan \notin SelectedPlans(values')
             /\ Rent(values', lastOp'.plan) = Undefined)]_vars

\* C4: the rentalPlans of the payload passed to onSubmit has one entry per entry
\* of selectedRentalPlans, in order: the plan as name and as duration, and the
\* value of the plan's price field as price.
C4_PayloadRentalPlans ==
    [][lastOp'.called
         => LET sent == pending'[Len(pending')].rentalPlans
                selected == values.selectedRentalPlans
            IN /\ Len(sent) = Len(selected)
               /\ \A i \in 1..Len(selected) :
                      /\ sent[i].name = selected[i]
                      /\ sent[i].duration = selected[i]
                      /\ Rent(values, selected[i]) = Num(sent[i].price)]_vars

C4_Witness ==
    /\ lastOp.called
    /\ Len(pending) = 1
    /\ pending[1].rentalPlans
         = <<[name |-> "Monthly", price |-> 5000, duration |-> "Monthly"]>>

\* C5: in CoworkingSpacesForm a submit attempt on an otherwise valid draft with
\* availableSeats > totalSeats leaves exactly the field error 'Available seats
\* cannot exceed total seats' on availableSeats, and onSubmit is not called.
C5_AvailableSeatsRejected ==
    [][(/\ SubmitStep
        /\ kind = Coworking
        /\ BasicsValid(kind, values, images)
        /\ SelectedPlans(values) # {}
        /\ \A plan \in SelectedPlans(values) : PositiveRent(Rent(values, plan))
        /\ values.availableSeats > values.totalSeats)
         => (/\ errors' = {Err(<<"availableSeats">>, MsgAvailableSeats)}
             /\ ~lastOp'.called
             /\ pending' = pending)]_vars

C5_Witness ==
    /\ lastOp.op = "handleSubmit" /\ ~lastOp.called
    /\ kind = Coworking
    /\ values.totalSeats >= 1
    /\ values.availableSeats > values.totalSeats
    /\ errors = {Err(<<"availableSeats">>, MsgAvailableSeats)}
    /\ pending = <<>>

\* C6: onSubmit is invoked only by a submit attempt whose draft passes every
\* validation check, and that step leaves the draft alone; the reset runs only
\* in the step in which an onSubmit call completes successfully: no other step
\* without a user edit changes the draft.
C6_CallAfterChecksResetAfterCall ==
    [][/\ lastOp'.called =>
            (AllChecksPass(kind, values, images) /\ draft' = draft)
       /\ (lastOp'.reset \/ (NoEditStep /\ draft' # draft)) =>
            (/\ lastOp'.op = "onSubmitResolved"
             /\ Len(pending) >= 1
             /\ Len(pending') = Len(pending) - 1)]_vars

C6_Witness ==
    /\ lastOp.op = "onSubmitResolved" /\ lastOp.reset
    /\ pending = <<>>
    /\ images = <<>>
    /\ ~isSubmitting

\* C7: when the onSubmit call rejects, the root error 'Failed to submit form.
\* Please try again.' is set and the draft is kept: values, images and rows are
\* unchanged and no reset runs.
C7_RejectionKeepsDraft ==
    [][lastOp'.op = "onSubmitRejected"
         => (/\ ErrorAt(errors', RootPath) = {RootError(MsgSubmitFailed)}
             /\ draft' = draft
             /\ ~lastOp'.reset)]_vars

C7_Witness ==
    /\ lastOp.op = "onSubmitRejected"
    /\ RootError(MsgSubmitFailed) \in errors
    /\ values.name = "Lab A" /\ images = <<"u1">>
    /\ pending = <<>> /\ ~isSubmitting

\* C8: after a successful submission the draft is the empty draft (empty field
\* values, no image in the local or the form-bound state, one default row),
\* for new drafts and for drafts pre-populated from initialData.
C8_ResetToEmptyDraft ==
    lastOp.op = "onSubmitResolved" => CurrentDraft = EmptyDraft(kind)

\* C9: at most one onSubmit call is in flight per form instance, and while one
\* is in flight the submit button is disabled (isSubmitting).
C9_OneCallInFlight ==
    /\ Len(pending) <= 1
    /\ pending # <<>> => (isSubmitting /\ ~SubmitEnabled)

C9_Witness == Len(pending) = 1 /\ isSubmitting /\ lastOp.op # "handleSubmit"

\* C10: removing index (0 <= index < N) from a list of N rows leaves N-1 rows,
\* the record at index gone and the others unchanged in their order: of the
\* filter the two remove handlers apply, at every index of the reachable lists,
\* and of the local and the form-bound list in every removeEquipment and
\* removeAreaDetail step.
C10_RemoveShiftsDown ==
    [][/\ \A seq \in {equipment, areaDetails} \cup
                     (IF kind = Bio THEN {values.equipment}
                      ELSE IF kind = RawSpace THEN {values.areaDetails} ELSE {}) :
              \A index \in 0..(Len(seq) - 1) :
                  RemovedAt(seq, RemoveIndex(seq, index), index)
       /\ lastOp'.op = "removeEquipment" =>
              /\ RemovedAt(equipment, equipment', lastOp'.index)
              /\ RemovedAt(values.equipment, values'.equipment, lastOp'.index)
       /\ lastOp'.op = "removeAreaDetail" =>
              /\ RemovedAt(areaDetails, areaDetails', lastOp'.index)
              /\ RemovedAt(values.areaDetails, values'.areaDetails, lastOp'.index)]_vars

C10_Witness ==
    /\ lastOp.op = "removeEquipment" /\ lastOp.index = 1
    /\ Len(equipment) = 2 /\ Len(values.equipment) = 2
    /\ values.equipment[1].labName = "L1"
    /\ values.equipment[2].labName = "L3"

\* C11: in BioAlliedLabsForm and RawSpaceLabForm the local row list and the
\* form-bound row list have the same length in every reachable state.
C11_RowListsSameLength ==
    /\ kind = Bio => Len(equipment) = Len(values.equipment)
    /\ kind = RawSpace => Len(areaDetails) = Len(values.areaDetails)

\* C12: addEquipment and addAreaDetail append exactly one default-valued record
\* at the end of the local list and of the form-bound list; the records already
\* there, and every other field, are unchanged.
C12_AddAppendsDefault ==
    [][/\ lastOp'.op = "addEquipment" =>
              /\ equipment' = Append(equipment, EmptyEquipment)
              /\ values' = [values EXCEPT !.equipment = Append(@, EmptyEquipment)]
              /\ Len(equipment') = Len(equipment) + 1
              /\ \A i \in 1..Len(values.equipment) : values'.equipment[i] = values.equipment[i]
       /\ lastOp'.op = "addAreaDetail" =>
              /\ areaDetails' = Append(areaDetails, DefaultAreaDetail)
              /\ values' = [values EXCEPT !.areaDetails = Append(@, DefaultAreaDetail)]
              /\ Len(areaDetails') = Len(areaDetails) + 1
              /\ \A i \in 1..Len(values.areaDetails) :
                     values'.areaDetails[i] = values.areaDetails[i]]_vars

C12_Witness ==
    /\ lastOp.op = "addEquipment"
    /\ Len(equipment) = 2 /\ Len(values.equipment) = 2
    /\ equipment[1].labName = "L1" /\ values.equipment[1].labName = "L1"
    /\ equipment[2] = EmptyEquipment /\ values.equipment[2] = EmptyEquipment

\* C13: in BioAlliedLabsForm and RawSpaceLabForm the repeatable-record sequence,
\* local and form-bound, has at least one record in every reachable state.
C13_AtLeastOneRow ==
    /\ kind = Bio => (Len(equipment) >= 1 /\ Len(values.equipment) >= 1)
    /\ kind = RawSpace => (Len(areaDetails) >= 1 /\ Len(values.areaDetails) >= 1)

C13_Witness ==
    /\ lastOp.op = "removeEquipment" /\ lastOp.index = 1
    /\ Len(equipment) = 1 /\ Len(values.equipment) = 1

\* The records of the draft that have no blank sub-field, in their order.
CompleteRows(k, v) == IF k = Bio THEN ValidEquipment(v) ELSE ValidAreaDetails(v)

\* The repeatable records of a payload, as records of the draft.
PayloadRows(k, data) ==
    IF k = Bio THEN data.equipment
    ELSE [i \in 1..Len(data.areaDetails) |->
             [data.areaDetails[i] EXCEPT !.area = Num(data.areaDetails[i].area)]]

\* C14: a submit attempt on a draft of BioAlliedLabsForm or RawSpaceLabForm that
\* is valid in its other fields calls onSubmit with exactly the records that
\* have no blank sub-field, in order, the incomplete ones dropped; when no
\* record is complete it is rejected with a root error and onSubmit is not called.
C14_IncompleteRowsDropped ==
    [][(/\ SubmitStep
        /\ kind \in {Bio, RawSpace}
        /\ FieldsValid(kind, values, images)
        /\ SelectedPlans(values) # {}
        /\ \A plan \in SelectedPlans(values) : PositiveRent(Rent(values, plan)))
         => IF Len(CompleteRows(kind, values)) > 0
            THEN /\ lastOp'.called
                 /\ PayloadRows(kind, pending'[Len(pending')]) = CompleteRows(kind, values)
            ELSE /\ ~lastOp'.called
                 /\ pending' = pending
                 /\ ErrorAt(errors', RootPath) # {}]_vars

\* C15: every payload passed to onSubmit has a non-empty images sequence and a
\* non-empty rentalPlans sequence.
C15_PayloadImagesAndPlans ==
    \A i \in 1..Len(pending) :
        Len(pending[i].images) > 0 /\ Len(pending[i].rentalPlans) > 0

C15_Witness ==
    /\ Len(pending) = 1
    /\ pending[1].images = <<"u1", "u2">>
    /\ Len(pending[1].rentalPlans) = 2

\* C16: a submit attempt on a draft with no rental plan selected, its images,
\* rows and other fields valid, is rejected with the root error 'Please select
\* at least one rental plan' and onSubmit is not called.
C16_NoPlanRootError ==
    [][(/\ SubmitStep
        /\ BasicsValid(kind, values, images)
        /\ SelectedPlans(values) = {})
         => (/\ RootError(MsgSelectPlan) \in errors'
             /\ ~lastOp'.called
             /\ pending' = pending)]_vars

\* C17: a submit attempt that validation rejects leaves the draft as it was
\* (field values, images, selected plans, prices, rows) and makes no call: only
\* the errors change.
C17_RejectedAttemptKeepsDraft ==
    [][(SubmitStep /\ ~lastOp'.called)
         => (/\ draft' = draft
             /\ pending' = pending
             /\ errors' # {}
             /\ UNCHANGED <<kind, initialData, isSubmitting>>)]_vars

C17_Witness ==
    /\ lastOp.op = "handleSubmit" /\ ~lastOp.called
    /\ errors # {}
    /\ nEdits > 0
    /\ values.name = "Lab B" /\ images = <<"u1", "u2">> /\ Len(values.selectedRentalPlans) = 2

\* C18: nothing is retried: onSubmit is called only in the step of a submit
\* click, once; an attempt that validation rejects calls nothing; and when a
\* call rejects it is over, with no new call, and the form waits for the user.
C18_NoAutomaticRetry ==
    [][/\ Len(pending') > Len(pending) =>
              (SubmitStep /\ lastOp'.called /\ Len(pending') = Len(pending) + 1)
       /\ (SubmitStep /\ ~lastOp'.called) => pending' = pending
       /\ lastOp'.op = "onSubmitRejected" =>
              (Len(pending') = Len(pending) - 1 /\ ~isSubmitting')]_vars

C18_Witness ==
    /\ lastOp.op = "onSubmitRejected"
    /\ pending = <<>> /\ ~isSubmitting
    /\ initialData = ListingB /\ kind = Coworking
    /\ RootError(MsgSubmitFailed) \in errors

\* C19: a submit attempt that validation rejects returns to Idle with errors
\* and never enters Submitting; a valid one enters Submitting; Submitting is
\* left only by the call resolving (the draft reset, no error) or rejecting
\* (no reset, the root error set); and, the call settling eventually,
\* Submitting is always left.
C19_SubmissionStateMachine ==
    /\ [][/\ (SubmitStep /\ ~lastOp'.called) => (~isSubmitting /\ ~isSubmitting' /\ errors' # {})
          /\ (SubmitStep /\ lastOp'.called) => (~isSubmitting /\ isSubmitting')
          /\ (isSubmitting /\ ~isSubmitting') =>
                \/ lastOp'.op = "onSubmitResolved" /\ lastOp'.reset /\ errors' = {}
                \/ /\ lastOp'.op = "onSubmitRejected" /\ ~lastOp'.reset
                   /\ RootError(MsgSubmitFailed) \in errors']_vars
    /\ (isSubmitting ~> ~isSubmitting)

C19_Witness ==
    /\ lastOp.op = "onSubmitResolved" /\ lastOp.reset
    /\ ~isSubmitting /\ SubmitEnabled
    /\ errors = {}
    /\ kind = RawSpace /\ initialData = ListingA

\* C20: in every reachable state the price input of a rental plan is visible
\* if and only if the plan is in selectedRentalPlans.
C20_RentInputVisibleIffSelected ==
    \A plan \in Plans :
        RentInputVisible(values, plan) <=> plan \in SelectedPlans(values)

C20_Witness ==
    /\ lastOp.op = "uncheck" /\ lastOp.plan = "Weekly"
    /\ RentInputVisible(values, "Annual")
    /\ ~RentInputVisible(values, "Weekly")
    /\ kind = Bio /\ Rent(values, "Weekly") = Num(900)

NoDuplicates(seq) == \A i, j \in 1..Len(seq) : seq[i] = seq[j] => i = j

\* C21: selectedRentalPlans never holds a plan twice, whatever boxes were
\* checked and unchecked, and the rentalPlans of every payload has exactly one
\* entry per selected plan.
C21_OneEntryPerSelectedPlan ==
    [][/\ NoDuplicates(values.selectedRentalPlans)
       /\ NoDuplicates(values'.selectedRentalPlans)
       /\ lastOp'.called =>
              LET sent == pending'[Len(pending')].rentalPlans
              IN /\ Len(sent) = Cardinality(SelectedPlans(values))
                 /\ {sent[i].name : i \in 1..Len(sent)} = SelectedPlans(values)]_vars

C21_Witness ==
    /\ lastOp.called
    /\ nEdits = 2
    /\ values.selectedRentalPlans = <<"Annual", "Weekly">>
    /\ Len(pending[1].rentalPlans) = 2

\* C22: in every payload a top-level rent field carries a value only if its
\* plan is among the payload's rentalPlans.
C22_UnselectedPriceAbsent ==
    \A i \in 1..Len(pending) :
        \A plan \in Plans :
            (RentField(plan) \in DOMAIN pending[i] /\ pending[i][RentField(plan)] # Undefined)
                => \E j \in 1..Len(pending[i].rentalPlans) :
                       pending[i].rentalPlans[j].name = plan

\* C24: in every reachable state of each listing form the local images list
\* equals the form-bound images field.
C24_ImagesMirrored == images = values.images

\* C25: every payload of CoworkingSpacesForm has totalSeats >= 1 and
\* 0 <= availableSeats <= totalSeats.
C25_PayloadSeats ==
    \A i \in 1..Len(pending) :
        pending[i].type = Coworking =>
            /\ pending[i].totalSeats >= 1
            /\ 0 <= pending[i].availableSeats
            /\ pending[i].availableSeats <= pending[i].totalSeats

C25_Witness ==
    /\ Len(pending) = 1 /\ pending[1].type = Coworking
    /\ pending[1].totalSeats = 3 /\ pending[1].availableSeats = 3
    /\ nEdits = 2

\* The check before rows in the fixed order passes.
ImagesCheckPasses == Len(images) > 0
\* The checks up to the rows pass.
RowsCheckPasses == ImagesCheckPasses /\ Len(CompleteRows(kind, values)) > 0
\* The checks up to the selection of a plan pass (CoworkingSpacesForm has no rows).
PlanCheckPasses ==
    /\ IF kind = Coworking THEN ImagesCheckPasses ELSE RowsCheckPasses
    /\ SelectedPlans(values) # {}
\* The checks up to the rent values pass.
RentCheckPasses ==
    /\ PlanCheckPasses
    /\ \A plan \in SelectedPlans(values) : Truthy(Rent(values, plan))

\* C26: a run of handleFormSubmit (the schema having passed) that rejects the
\* draft leaves exactly one error, that of the first check that fails in the
\* order images, valid rows (Bio, RawSpace), plan selected, rent values,
\* totalSeats > 0 and availableSeats <= totalSeats (Coworking).
C26_FirstFailingCheckOnly ==
    [][(SubmitStep /\ SchemaErrors(kind, values) = {} /\ ~lastOp'.called)
         => /\ Cardinality(errors') = 1
            /\ RootError(MsgUploadImage) \in errors' <=> ~ImagesCheckPasses
            /\ RootError(MsgNoValidEquipment) \in errors' <=>
                   (kind = Bio /\ ImagesCheckPasses /\ ~RowsCheckPasses)
            /\ RootError(MsgNoValidAreaDetail) \in errors' <=>
                   (kind = RawSpace /\ ImagesCheckPasses /\ ~RowsCheckPasses)
            /\ RootError(MsgSelectPlan) \in errors' <=>
                   (/\ IF kind = Coworking THEN ImagesCheckPasses ELSE RowsCheckPasses
                    /\ ~PlanCheckPasses)
            /\ RootError(MsgRentValues) \in errors' <=> (PlanCheckPasses /\ ~RentCheckPasses)
            /\ Err(<<"totalSeats">>, MsgTotalSeats) \in errors' <=>
                   (kind = Coworking /\ RentCheckPasses /\ values.totalSeats <= 0)
            /\ Err(<<"availableSeats">>, MsgAvailableSeats) \in errors' <=>
                   (/\ kind = Coworking /\ RentCheckPasses /\ values.totalSeats > 0
                    /\ values.availableSeats > values.totalSeats)]_vars

\* Two checks fail, the first one reports.
C26_Witness ==
    /\ lastOp.op = "handleSubmit" /\ ~lastOp.called
    /\ errors = {RootError(MsgUploadImage)}
    /\ SchemaErrors(kind, values) = {}
    /\ \E plan \in SelectedPlans(values) : ~Truthy(Rent(values, plan))

\* C27: a form pre-populated from initialData whose rentalPlans have distinct
\* names and positive prices, submitted without any edit, passes onSubmit a
\* payload whose rentalPlans has the names and prices of initialData.rentalPlans
\* in the same order.
C27_EditFlowRoundTrip ==
    [][(/\ lastOp'.called
        /\ initialData.defined
        /\ nEdits = 0 /\ lastOp.op = "init"
        /\ NoDuplicates([i \in 1..Len(initialData.rentalPlans) |->
                            initialData.rentalPlans[i].name])
        /\ \A i \in 1..Len(initialData.rentalPlans) : initialData.rentalPlans[i].price > 0)
         => LET sent == pending'[Len(pending')].rentalPlans
            IN /\ Len(sent) = Len(initialData.rentalPlans)
               /\ \A i \in 1..Len(sent) :
                      /\ sent[i].name = initialData.rentalPlans[i].name
                      /\ sent[i].price = initialData.rentalPlans[i].price]_vars

C27_Witness ==
    /\ lastOp.called /\ nEdits = 0
    /\ initialData = ListingB /\ kind = RawSpace
    /\ Len(pending) = 1
    /\ pending[1].rentalPlans[1].name = "Weekly" /\ pending[1].rentalPlans[1].price = 900
    /\ pending[1].rentalPlans[2].name = "Annual" /\ pending[1].rentalPlans[2].price = 60000

\* C23: the sign-in page pushes a redirect only from its effect, with the
\* status 'authenticated' and a user in the session; the target is the 'from'
\* parameter when it is not empty, else '/startup/dashboard' for the userType
\* 'startup' and '/service-provider/dashboard' for any other.
C23_RedirectOnlyWhenAuthenticated ==
    [][signInPage'.router.pushed
         => (/\ signInPage'.op = "useEffect"
             /\ signInPage.status = "authenticated"
             /\ signInPage.session.present /\ signInPage.session.user.defined
             /\ signInPage'.router.to =
                  (IF signInPage.from # "" THEN signInPage.from
                   ELSE IF signInPage.session.user.userType = "startup"
                        THEN "/startup/dashboard"
                   ELSE "/service-provider/dashboard"))]_vars

\* After a successful sign-in the session arrives and the effect redirects.
C23_Witness ==
    /\ signInPage.op = "useEffect"
    /\ signInPage.router = Push("/service-provider/dashboard")
    /\ signInPage.session.user.userType = "admin"
    /\ signInPage.isLoading /\ signInPage.result = ResultOk

\* C28: when signIn returns an error or throws, a root error is set, with the
\* 'no account' text for 'No user found with this email', the 'incorrect
\* password' text for 'Invalid password', 'Failed to sign in. Please try again.'
\* for any other error and 'An unexpected error occurred. Please try again.'
\* for an exception, and isLoading is false again, the button enabled; when
\* signIn returns without error no root error is set and isLoading stays true.
C28_SignInErrors ==
    [][/\ (signInPage'.op = "signInReturned" /\ HasError(signInPage'.result)) =>
              /\ ErrorAt(signInPage'.errors, RootPath) =
                   {RootError(CASE signInPage'.result.error = "No user found with this email"
                                     -> MsgNoAccount
                                [] signInPage'.result.error = "Invalid password"
                                     -> MsgIncorrectPassword
                                [] OTHER -> MsgSignInFailed)}
              /\ ~signInPage'.isLoading
              /\ SignInEnabled(signInPage')
       /\ signInPage'.op = "signInThrew" =>
              /\ ErrorAt(signInPage'.errors, RootPath) = {RootError(MsgUnexpected)}
              /\ ~signInPage'.isLoading
              /\ SignInEnabled(signInPage')
       /\ (signInPage'.op = "signInReturned" /\ ~HasError(signInPage'.result)) =>
              /\ ErrorAt(signInPage'.errors, RootPath) = {}
              /\ signInPage.isLoading /\ signInPage'.isLoading]_vars

C28_Witness ==
    /\ signInPage.op = "signInReturned"
    /\ signInPage.result = ResultError("Invalid password")
    /\ signInPage.errors = {RootError(MsgIncorrectPassword)}
    /\ ~signInPage.isLoading /\ SignInEnabled(signInPage)

====
